---- MODULE Spec2Model ----
(***************************************************************************)
(* A model of the two concurrent engines of the Shakespeare match-count    *)
(* codelab:                                                                *)
(*   - the load generator (loadgen/main.go): main's ticker loop and run,   *)
(*     which launches numWorkers goroutines gated by the buffered channel  *)
(*     concCh and collects their results from the unbuffered respErrCh;    *)
(*   - the server (server/main.go): GetMatchCount and readFiles, which     *)
(*     fetches every listed object in its own goroutine and collects the   *)
(*     results from the unbuffered channel resps.                          *)
(* Goroutines of one batch are anonymous closures that capture nothing of  *)
(* their own, so a batch is kept as a bag of task records.                 *)
(***************************************************************************)
EXTENDS Integers, Sequences, FiniteSets, Bags, TLC

\* ------------------------------------------------------------------ bounds
MaxWorkers == 2
MaxConcurrency == 2
MaxRounds == 1
MaxBatches == 2

VARIABLES
    \* ---- load generator
    numWorkers,      \* NUM_WORKERS
    numConcurrency,  \* NUM_CONCURRENCY
    numRounds,       \* NUM_ROUNDS
    mainPc,          \* main: "tick" (blocked on t.C), "run" (inside run), "exit"
    mainI,           \* main's round counter i
    round,           \* number of run calls made so far; the current batch
    runI,            \* run's collector index i of the current run call
    runRet,          \* batch -> "none" (not called), "pending", "nil", "err"
    tasks,           \* batch -> bag of [pc, ret] of the goroutines run launched
    concCh           \* batch -> number of values buffered in that call's concCh

VARIABLES
    \* ---- server
    objects,         \* the bucket: the sequence of objects a listing yields
    crashed,         \* the server process was terminated by a panic
    srvPc,           \* "idle", "collect" (readFiles' receive loop), "readDone"
                     \* (readFiles returned), "returned", "panic"
    reqs,            \* number of GetMatchCount calls accepted so far
    query,           \* req.Query of the current call
    paths,           \* readFiles' paths: indexes into objects
    fetch,           \* path index -> [pc, s, err] of its goroutine
    ret,             \* readFiles' ret
    rfI,             \* readFiles' receive index i
    rfErr,           \* readFiles' err
    resp,            \* GetMatchCount's (resp.MatchCount, error)
    tested,          \* number of MatchString calls made by the current call
    doomed,          \* a goroutine of an earlier call is about to read its
                     \* nil reader
    compiles         \* number of regexp.MustCompile calls of the current call

VARIABLES
    \* ---- the request URL the goroutines of one run call share
    reqURL,          \* reqURL.RawQuery
    worker           \* goroutine -> [pc, q, sent, ret]: its position, the index
                     \* of the test case it drew, the query that went over the
                     \* wire and what runQuery returned

VARIABLES
    \* ---- one query on its way through the client and back
    call             \* [pc, q, rpc, body, matched, err, sent]

loadVars == <<numWorkers, numConcurrency, numRounds, mainPc, mainI, round,
              runI, runRet, tasks, concCh>>

serverVars == <<objects, crashed, srvPc, reqs, query, paths, fetch, ret, rfI,
                rfErr, resp, tested, doomed, compiles>>

wireVars == <<reqURL, worker>>

vars == <<loadVars, serverVars, wireVars, call>>

Batches == 1..MaxBatches

\* ------------------------------------------------------------ bag helpers
RECURSIVE SumCopies(_, _)
SumCopies(B, S) ==
    IF S = {} THEN 0
    ELSE LET t == CHOOSE x \in S : TRUE
         IN  CopiesIn(t, B) + SumCopies(B, S \ {t})

\* number of tasks of bag B whose position is in pcs
NumAt(B, pcs) == SumCopies(B, {t \in BagToSet(B) : t.pc \in pcs})

\* number of tasks of bag B whose query returned r
NumRet(B, r) == SumCopies(B, {t \in BagToSet(B) : t.ret = r})

Copies(t, n) == IF n = 0 THEN EmptyBag ELSE [x \in {t} |-> n]

MoveTask(B, from, to) == (B (-) SetToBag({from})) (+) SetToBag({to})

Task(pc, r) == [pc |-> pc, ret |-> r]

\* ------------------------------------------------------------ load generator

\* init(): the configuration numbers
LoadInit ==
    /\ numWorkers \in 0..MaxWorkers
    /\ numConcurrency \in 0..MaxConcurrency
    /\ numRounds \in 0..MaxRounds
    /\ mainPc = "tick"
    /\ mainI = 0
    /\ round = 0
    /\ runI = 0
    /\ runRet = [b \in Batches |-> "none"]
    /\ tasks = [b \in Batches |-> EmptyBag]
    /\ concCh = [b \in Batches |-> 0]

\* main, after run returned: log, then `if numRounds != 0 && i > numRounds
\* { break }; i++`
MainBreaksAtOnce == numRounds # 0

MainBreaks == numRounds # 0 /\ mainI > numRounds

MainLoopBody ==
    /\ mainPc' = IF MainBreaks THEN "exit" ELSE "tick"
    /\ mainI' = IF MainBreaks THEN mainI ELSE mainI + 1

\* main receives a tick and calls run(numWorkers, numConcurrency): run makes
\* its two channels and launches `workers` goroutines
Tick ==
    /\ mainPc = "tick"
    /\ round < MaxBatches
    /\ round' = round + 1
    /\ mainPc' = "run"
    /\ runI' = 0
    /\ runRet' = [runRet EXCEPT ![round + 1] = "pending"]
    /\ tasks' = [tasks EXCEPT ![round + 1] = Copies(Task("acquire", "none"), numWorkers)]
    /\ concCh' = [concCh EXCEPT ![round + 1] = 0]
    /\ UNCHANGED <<numWorkers, numConcurrency, numRounds, mainI>>
    /\ UNCHANGED <<serverVars, wireVars, call>>

\* `concCh <- true` on a channel of capacity `concurrency` goes through
\* while the buffer has room (capacity 0: no receiver is ever waiting)
CanAcquireAlways(b) == TRUE

CanAcquireOneMore(b) == concCh[b] <= numConcurrency

CanAcquire(b) == concCh[b] < numConcurrency

\* a goroutine takes its permit and calls runQuery
Acquire(b) ==
    /\ BagIn(Task("acquire", "none"), tasks[b])
    /\ CanAcquire(b)
    /\ concCh' = [concCh EXCEPT ![b] = @ + 1]
    /\ tasks' = [tasks EXCEPT ![b] =
                    MoveTask(@, Task("acquire", "none"), Task("query", "none"))]
    /\ UNCHANGED <<numWorkers, numConcurrency, numRounds, mainPc, mainI,
                   round, runI, runRet>>
    /\ UNCHANGED <<serverVars, wireVars, call>>

\* what the goroutine's closure finds: runQuery returned the count the test
\* case wants ("nil"), another count ("diff") or an error ("err")
Outcomes == {"nil", "diff", "err"}

\* the value of the closure, which is sent on respErrCh: runQuery's error, or
\* nil after check, which only logs
SentIfUnchecked(r) == IF r = "nil" THEN "nil" ELSE "err"

Sent(r) == IF r = "err" THEN "err" ELSE "nil"

\* runQuery returns: with a count, which check logs, or with an error; the
\* goroutine then blocks on `respErrCh <- ...`
RunQuery(b) ==
    /\ BagIn(Task("query", "none"), tasks[b])
    /\ \E r \in {"nil", "err"} :
          tasks' = [tasks EXCEPT ![b] =
                       MoveTask(@, Task("query", "none"), Task("send", r))]
    /\ UNCHANGED <<numWorkers, numConcurrency, numRounds, mainPc, mainI,
                   round, runI, runRet, concCh>>
    /\ UNCHANGED <<serverVars, wireVars, call>>

\* runQuery returns a count that is not q.wantCount: check logs the mismatch
\* and the closure returns nil
RunQueryDiff(b) ==
    /\ BagIn(Task("query", "none"), tasks[b])
    /\ tasks' = [tasks EXCEPT ![b] =
                    MoveTask(@, Task("query", "none"), Task("send", "diff"))]
    /\ UNCHANGED <<numWorkers, numConcurrency, numRounds, mainPc, mainI,
                   round, runI, runRet, concCh>>
    /\ UNCHANGED <<serverVars, wireVars, call>>

\* the collector of batch b is at `<-respErrCh`
Collecting(b) == mainPc = "run" /\ b = round /\ runI < numWorkers

\* goroutines of batch b that hold a permit: `concCh <- true` done, the
\* deferred `<-concCh` not yet
Held(b) == NumAt(tasks[b], {"query", "send", "release"})

\* goroutines of batch b inside runQuery
InFlight(b) == NumAt(tasks[b], {"query"})

\* goroutines of batch b that have called runQuery
Issued(b) == NumAt(tasks[b], {"query", "send", "release", "done"})

\* goroutines of batch b whose result the collector has received
Delivered(b) == NumAt(tasks[b], {"release", "done"})

\* rendezvous on respErrCh with a nil result: the collector goes on
RecvNil(b) ==
    /\ Collecting(b)
    /\ \E r \in Outcomes :
          /\ Sent(r) = "nil"
          /\ BagIn(Task("send", r), tasks[b])
          /\ tasks' = [tasks EXCEPT ![b] =
                          MoveTask(@, Task("send", r), Task("release", r))]
    /\ runI' = runI + 1
    /\ UNCHANGED <<numWorkers, numConcurrency, numRounds, mainPc, mainI,
                   round, runRet, concCh>>
    /\ UNCHANGED <<serverVars, wireVars, call>>

\* rendezvous on respErrCh with an error: run returns it at once
RecvErr(b) ==
    /\ Collecting(b)
    /\ \E r \in Outcomes :
          /\ Sent(r) = "err"
          /\ BagIn(Task("send", r), tasks[b])
          /\ tasks' = [tasks EXCEPT ![b] =
                          MoveTask(@, Task("send", r), Task("release", r))]
    /\ runRet' = [runRet EXCEPT ![b] = "err"]
    /\ MainLoopBody
    /\ UNCHANGED <<numWorkers, numConcurrency, numRounds, round, runI, concCh>>
    /\ UNCHANGED <<serverVars, wireVars, call>>

\* run's collector loop `for i := 0; i < workers; i++` is over
RunLoopDoneEarly == runI >= numWorkers - 1

RunLoopDone == runI >= numWorkers

\* the collector loop has received `workers` results: run returns nil
RunReturnNil ==
    /\ mainPc = "run"
    /\ RunLoopDone
    /\ runRet' = [runRet EXCEPT ![round] = "nil"]
    /\ MainLoopBody
    /\ UNCHANGED <<numWorkers, numConcurrency, numRounds, round, runI, tasks,
                   concCh>>
    /\ UNCHANGED <<serverVars, wireVars, call>>

\* the deferred `<-concCh` of a goroutine whose send went through
Release(b) ==
    /\ \E r \in Outcomes :
          /\ BagIn(Task("release", r), tasks[b])
          /\ tasks' = [tasks EXCEPT ![b] =
                          MoveTask(@, Task("release", r), Task("done", r))]
    /\ concCh' = [concCh EXCEPT ![b] = @ - 1]
    /\ UNCHANGED <<numWorkers, numConcurrency, numRounds, mainPc, mainI,
                   round, runI, runRet>>
    /\ UNCHANGED <<serverVars, wireVars, call>>

\* ------------------------------------------------------------------ strings
\* A string is a sequence of one-character strings over the letters l L s S,
\* the space, the backslash and the newline.

\* unicode.ToLower
Lower(c) == CASE c = "L" -> "l" [] c = "S" -> "s" [] OTHER -> c

\* strings.ToLower
ToLower(str) == [k \in 1..Len(str) |-> Lower(str[k])]

\* strings.Split(text, "\n")
RECURSIVE Split(_)
Split(text) ==
    IF \A k \in 1..Len(text) : text[k] # "\n" THEN <<text>>
    ELSE LET k == CHOOSE j \in 1..Len(text) :
                      /\ text[j] = "\n"
                      /\ \A h \in 1..(j - 1) : text[h] # "\n"
         IN  <<SubSeq(text, 1, k - 1)>> \o Split(SubSeq(text, k + 1, Len(text)))

\* regexp/syntax on this alphabet: a letter or a space stands for itself, \s
\* is the white space class, \S its complement, a backslash before a
\* backslash or a space makes it a literal, \l and \L are invalid escapes and
\* a trailing backslash is an error
Lit(c) == [kind |-> "lit", c |-> c]

Class(kind) == [kind |-> kind, c |-> ""]

RECURSIVE Parse(_)
Parse(p) ==
    IF p = <<>> THEN [ok |-> TRUE, toks |-> <<>>]
    ELSE IF p[1] # "\\"
    THEN LET r == Parse(Tail(p))
         IN  [ok |-> r.ok, toks |-> <<Lit(p[1])>> \o r.toks]
    ELSE IF Len(p) = 1 THEN [ok |-> FALSE, toks |-> <<>>]
    ELSE LET r == Parse(SubSeq(p, 3, Len(p)))
         IN  CASE p[2] = "s" -> [ok |-> r.ok, toks |-> <<Class("space")>> \o r.toks]
               [] p[2] = "S" -> [ok |-> r.ok, toks |-> <<Class("nonspace")>> \o r.toks]
               [] p[2] \in {"\\", " "} -> [ok |-> r.ok, toks |-> <<Lit(p[2])>> \o r.toks]
               [] OTHER -> [ok |-> FALSE, toks |-> <<>>]

\* one instruction of the compiled program against one character
TokMatch(tok, ch) ==
    CASE tok.kind = "lit" -> ch = tok.c
      [] tok.kind = "space" -> ch = " "
      [] tok.kind = "nonspace" -> ch # " "

\* (*Regexp).MatchString: an unanchored search
MatchString(toks, line) ==
    \E pos \in 0..(Len(line) - Len(toks)) :
        \A k \in 1..Len(toks) : TokMatch(toks[k], line[pos + k])

\* ------------------------------------------------------------------ server
MaxObjects == 2
MaxRequests == 2

\* the objects a bucket may hold, in the order a listing yields them (by
\* name); the listing may yield an entry without a name
Bucket ==
    << [name |-> "", content |-> <<"l">>],
       [name |-> "a", content |-> <<"l", "\n", "L">>],
       [name |-> "b", content |-> <<"s", " ", "l">>],
       [name |-> "c", content |-> <<>>] >>

\* the queries a request may carry: l, L, " l", \s, \S and a lone backslash
Queries ==
    { <<"l">>, <<"L">>, <<" ", "l">>, <<"\\", "s">>, <<"\\", "S">>, <<"\\">> }

RECURSIVE Pick(_, _)
Pick(seq, keep) ==
    IF seq = <<>> THEN <<>>
    ELSE LET rest == Pick(Tail(seq), {k - 1 : k \in keep \ {1}})
         IN  IF 1 \in keep THEN <<Head(seq)>> \o rest ELSE rest

\* what the bucket holds: at most MaxObjects of the objects, listed by name
Stores ==
    {Pick(Bucket, keep) : keep \in {K \in SUBSET (1..Len(Bucket)) : Cardinality(K) <= MaxObjects}}

NoError == [kind |-> "nil", path |-> 0]

Error(kind, k) == [kind |-> kind, path |-> k]

Fetch(pc, str, err) == [pc |-> pc, s |-> str, err |-> err]

ListPathsAll == [k \in 1..Len(objects) |-> k]

\* readFiles' listing loop: the entries that have a name
ListPaths ==
    Pick([k \in 1..Len(objects) |-> k], {k \in 1..Len(objects) : objects[k].name # ""})

ServerInit ==
    /\ objects \in Stores
    /\ crashed = FALSE
    /\ srvPc = "idle"
    /\ reqs = 0
    /\ query = <<>>
    /\ paths = <<>>
    /\ fetch = <<>>
    /\ ret = <<>>
    /\ rfI = 0
    /\ rfErr = NoError
    /\ resp = [MatchCount |-> 0, err |-> "none"]
    /\ tested = 0
    /\ doomed = FALSE
    /\ compiles = 0

\* a goroutine of the current call has sent its open error and goes on to
\* ioutil.ReadAll with its nil reader
NilReaders == {k \in DOMAIN fetch : fetch[k].pc = "nilRead"}

\* GetMatchCount is called with query q and calls readFiles: the client is
\* made, the bucket is listed and one goroutine per path is launched; or
\* making the client or listing the bucket fails and readFiles returns
GetMatchCount(q, listed) ==
    /\ ~crashed
    /\ srvPc \in {"idle", "returned"}
    /\ reqs < MaxRequests
    /\ reqs' = reqs + 1
    /\ query' = q
    /\ resp' = [MatchCount |-> 0, err |-> "none"]
    /\ tested' = 0
    /\ compiles' = 0
    /\ doomed' = (doomed \/ NilReaders # {})
    /\ rfI' = 0
    /\ IF listed
       THEN /\ paths' = ListPaths
            /\ fetch' = [k \in 1..Len(ListPaths) |-> Fetch("open", <<>>, "nil")]
            /\ ret' = [k \in 1..Len(ListPaths) |-> <<>>]
            /\ rfErr' = NoError
            /\ srvPc' = "collect"
       ELSE /\ paths' = <<>>
            /\ fetch' = <<>>
            /\ ret' = <<>>
            /\ rfErr' = Error("list", 0)
            /\ srvPc' = "readDone"
    /\ UNCHANGED <<objects, crashed>>
    /\ UNCHANGED <<loadVars, wireVars, call>>

\* obj.NewReader(ctx) of goroutine k returns a reader, or an error: then the
\* goroutine is at `resps <- resp{"", err}`
NewReader(k) ==
    /\ ~crashed
    /\ k \in DOMAIN fetch
    /\ fetch[k].pc = "open"
    /\ \E ok \in BOOLEAN :
          fetch' = [fetch EXCEPT ![k] =
                       IF ok THEN Fetch("read", <<>>, "nil")
                       ELSE Fetch("sendOpen", <<>>, "open")]
    /\ UNCHANGED <<objects, crashed, srvPc, reqs, query, paths, ret, rfI,
                   rfErr, resp, tested, doomed, compiles>>
    /\ UNCHANGED <<loadVars, wireVars, call>>

\* the content of the object goroutine k reads
Content(k) == objects[paths[k]].content

\* ioutil.ReadAll(r) of goroutine k returns the content, or what it read
\* before an error (all of it when the error comes at the end) and the
\* error: the goroutine is at `resps <- resp{...}`
ReadAll(k) ==
    /\ ~crashed
    /\ k \in DOMAIN fetch
    /\ fetch[k].pc = "read"
    /\ \/ fetch' = [fetch EXCEPT ![k] = Fetch("send", Content(k), "nil")]
       \/ \E n \in 0..Len(Content(k)) :
             fetch' = [fetch EXCEPT ![k] =
                          Fetch("send", SubSeq(Content(k), 1, n), "read")]
    /\ UNCHANGED <<objects, crashed, srvPc, reqs, query, paths, ret, rfI,
                   rfErr, resp, tested, doomed, compiles>>
    /\ UNCHANGED <<loadVars, wireVars, call>>

\* readFiles' receive loop stores the received string at ret[i]
RetIndexLast == Len(paths)

RetIndex == rfI + 1

\* rendezvous on resps between goroutine k and readFiles' receive loop; a
\* goroutine that sent its open error does not return
Recv(k) ==
    /\ ~crashed
    /\ srvPc = "collect"
    /\ rfI < Len(paths)
    /\ k \in DOMAIN fetch
    /\ fetch[k].pc \in {"send", "sendOpen"}
    /\ ret' = [ret EXCEPT ![RetIndex] = fetch[k].s]
    /\ rfErr' = IF fetch[k].err # "nil" THEN Error(fetch[k].err, k) ELSE rfErr
    /\ rfI' = rfI + 1
    /\ fetch' = [fetch EXCEPT ![k].pc =
                    IF fetch[k].pc = "sendOpen" THEN "nilRead" ELSE "done"]
    /\ UNCHANGED <<objects, crashed, srvPc, reqs, query, paths, resp, tested,
                   doomed, compiles>>
    /\ UNCHANGED <<loadVars, wireVars, call>>

\* readFiles has received len(paths) results and returns ret, err
ReadFilesReturn ==
    /\ ~crashed
    /\ srvPc = "collect"
    /\ rfI >= Len(paths)
    /\ srvPc' = "readDone"
    /\ UNCHANGED <<objects, crashed, reqs, query, paths, fetch, ret, rfI,
                   rfErr, resp, tested, doomed, compiles>>
    /\ UNCHANGED <<loadVars, wireVars, call>>

\* ioutil.ReadAll calls Read on the nil *storage.Reader: a nil pointer
\* dereference in a goroutine nobody recovers, which ends the process
Panic ==
    /\ ~crashed
    /\ (doomed \/ NilReaders # {})
    /\ crashed' = TRUE
    /\ UNCHANGED <<objects, srvPc, reqs, query, paths, fetch, ret, rfI, rfErr,
                   resp, tested, doomed, compiles>>
    /\ UNCHANGED <<loadVars, wireVars, call>>

\* the lines of a text that match: GetMatchCount's inner loop
LineMatches(toks, text) ==
    Cardinality({k \in 1..Len(Split(text)) :
                    MatchString(toks, ToLower(Split(text)[k]))})

CountFirstOnly(toks, texts) ==
    IF texts = <<>> THEN 0 ELSE LineMatches(toks, Head(texts))

\* GetMatchCount's outer loop over texts
RECURSIVE CountMatches(_, _)
CountMatches(toks, texts) ==
    IF texts = <<>> THEN 0
    ELSE LineMatches(toks, Head(texts)) + CountMatches(toks, Tail(texts))

\* the number of lines GetMatchCount's loops test
RECURSIVE CountLines(_)
CountLines(texts) ==
    IF texts = <<>> THEN 0
    ELSE Len(Split(Head(texts))) + CountLines(Tail(texts))

\* `if err != nil` after readFiles
ReadFailedNever == FALSE

ReadFailedInFetch == rfErr.kind \in {"open", "read"}

ReadFailed == rfErr.kind # "nil"

\* regexp.MustCompile(strings.ToLower(req.Query))
Compiled == Parse(ToLower(query))

CompilationsPerLine(texts) == CountLines(texts)

\* the MustCompile calls of one GetMatchCount call over texts: the call
\* stands before the loops
Compilations(texts) == 1

\* GetMatchCount after readFiles returned: the error is returned with the
\* empty response, or the query is compiled (MustCompile panics on a query
\* that does not parse, and nothing recovers) and the lines are counted
Reply ==
    /\ ~crashed
    /\ srvPc = "readDone"
    /\ IF ReadFailed
       THEN /\ resp' = [MatchCount |-> resp.MatchCount, err |-> "retrieval"]
            /\ srvPc' = "returned"
            /\ UNCHANGED <<crashed, tested, compiles>>
       ELSE IF ~Compiled.ok
       THEN /\ crashed' = TRUE
            /\ srvPc' = "panic"
            /\ compiles' = compiles + 1
            /\ UNCHANGED <<resp, tested>>
       ELSE /\ resp' = [MatchCount |-> CountMatches(Compiled.toks, ret), err |-> "nil"]
            /\ compiles' = compiles + Compilations(ret)
            /\ tested' = CountLines(ret)
            /\ srvPc' = "returned"
            /\ UNCHANGED crashed
    /\ UNCHANGED <<objects, reqs, query, paths, fetch, ret, rfI, rfErr, doomed>>
    /\ UNCHANGED <<loadVars, wireVars, call>>

\* the load generator is not part of the server's specification
LoadIdle ==
    /\ numWorkers = 0
    /\ numConcurrency = 0
    /\ numRounds = 0
    /\ mainPc = "tick"
    /\ mainI = 0
    /\ round = 0
    /\ runI = 0
    /\ runRet = [b \in Batches |-> "none"]
    /\ tasks = [b \in Batches |-> EmptyBag]
    /\ concCh = [b \in Batches |-> 0]

ServerNext ==
    \/ \E q \in Queries, listed \in BOOLEAN : GetMatchCount(q, listed)
    \/ \E k \in 1..MaxObjects : NewReader(k)
    \/ \E k \in 1..MaxObjects : ReadAll(k)
    \/ \E k \in 1..MaxObjects : Recv(k)
    \/ ReadFilesReturn
    \/ Panic
    \/ Reply

\* no query is followed through the client
NoCall ==
    [pc |-> "none", q |-> 0, rpc |-> [kind |-> "none"], body |-> <<>>,
     matched |-> 0, err |-> "none", sent |-> "none"]

\* no run call is looked at goroutine by goroutine
WireIdle ==
    /\ reqURL = ""
    /\ worker = <<>>
    /\ call = NoCall

InitServer == ServerInit /\ LoadIdle /\ WireIdle

ServerSpec == InitServer /\ [][ServerNext]_vars

\* the server is not part of the load generator's specification
ServerIdle ==
    /\ objects = <<>>
    /\ crashed = FALSE
    /\ srvPc = "idle"
    /\ reqs = 0
    /\ query = <<>>
    /\ paths = <<>>
    /\ fetch = <<>>
    /\ ret = <<>>
    /\ rfI = 0
    /\ rfErr = NoError
    /\ resp = [MatchCount |-> 0, err |-> "none"]
    /\ tested = 0
    /\ doomed = FALSE
    /\ compiles = 0

Init == LoadInit /\ ServerIdle /\ WireIdle

Next ==
    \/ Tick
    \/ \E b \in Batches : Acquire(b)
    \/ \E b \in Batches : RunQuery(b)
    \/ \E b \in Batches : RecvNil(b)
    \/ \E b \in Batches : RecvErr(b)
    \/ RunReturnNil
    \/ \E b \in Batches : Release(b)

Spec == Init /\ [][Next]_vars

\* one call of run: main's first tick, and the goroutines of that batch
FirstTick == round = 0 /\ Tick

RunNext ==
    \/ FirstTick
    \/ Acquire(1)
    \/ RunQuery(1)
    \/ RunQueryDiff(1)
    \/ RecvNil(1)
    \/ RecvErr(1)
    \/ RunReturnNil
    \/ Release(1)

\* the Go scheduler runs every runnable goroutine, and the ticker fires
Fairness ==
    /\ WF_vars(FirstTick)
    /\ WF_vars(Acquire(1))
    /\ WF_vars(RunQuery(1))
    /\ WF_vars(RecvNil(1))
    /\ WF_vars(RecvErr(1))
    /\ WF_vars(RunReturnNil)
    /\ WF_vars(Release(1))

FairSpec == Init /\ [][RunNext]_vars /\ Fairness

\* ------------------------------------------------- runQuery and the shared URL
\* One call of run in which the goroutines are told apart, and runQuery is
\* split where it writes and where it reads the package variable reqURL.

\* two of the test cases
testCases ==
    << [query |-> "faith", wantCount |-> 484],
       [query |-> "insolence", wantCount |-> 14] >>

Workers == 1..numWorkers

Worker(pc, q, sent, r) == [pc |-> pc, q |-> q, sent |-> sent, ret |-> r]

\* main has called run(numWorkers, numConcurrency), which has launched its
\* goroutines
WireInit ==
    /\ numWorkers \in 0..MaxWorkers
    /\ numConcurrency \in 0..MaxConcurrency
    /\ numRounds \in 0..MaxRounds
    /\ mainPc = "run"
    /\ mainI = 0
    /\ round = 1
    /\ runI = 0
    /\ runRet = [b \in Batches |-> IF b = 1 THEN "pending" ELSE "none"]
    /\ tasks = [b \in Batches |-> EmptyBag]
    /\ concCh = [b \in Batches |-> 0]
    /\ reqURL = ""
    /\ worker = [w \in Workers |-> Worker("acquire", 0, "", "none")]
    /\ call = NoCall

\* goroutine w takes its permit and draws its test case
WAcquire(w) ==
    /\ worker[w].pc = "acquire"
    /\ CanAcquire(1)
    /\ concCh' = [concCh EXCEPT ![1] = @ + 1]
    /\ \E c \in 1..Len(testCases) :
          worker' = [worker EXCEPT ![w] = Worker("set", c, "", "none")]
    /\ UNCHANGED <<numWorkers, numConcurrency, numRounds, mainPc, mainI,
                   round, runI, runRet, tasks, reqURL>>
    /\ UNCHANGED <<serverVars, call>>

\* runQuery: `reqURL.RawQuery = v.Encode()`
WSetQuery(w) ==
    /\ worker[w].pc = "set"
    /\ reqURL' = testCases[worker[w].q].query
    /\ worker' = [worker EXCEPT ![w].pc = "get"]
    /\ UNCHANGED loadVars
    /\ UNCHANGED <<serverVars, call>>

\* another goroutine is at its write of reqURL.RawQuery while w reads it
Racing(w) == \E v \in Workers \ {w} : worker[v].pc = "set"

\* what `reqURL.String()` of goroutine w may yield: the value last written,
\* or, when the read races with a write, a string made of parts of both
\* (the read of a string is not atomic)
ReadURL(w) == {reqURL} \cup (IF Racing(w) THEN {"torn"} ELSE {})

\* runQuery: `http.Get(reqURL.String())` and the decoding of the answer; the
\* goroutine then blocks on `respErrCh <- ...`
WGet(w) ==
    /\ worker[w].pc = "get"
    /\ \E sent \in ReadURL(w), r \in {"nil", "err"} :
          worker' = [worker EXCEPT ![w] = Worker("send", worker[w].q, sent, r)]
    /\ UNCHANGED reqURL
    /\ UNCHANGED loadVars
    /\ UNCHANGED <<serverVars, call>>

\* rendezvous on respErrCh between goroutine w and the collector: the
\* collector goes on after nil and returns an error at once
WRecv(w) ==
    /\ Collecting(1)
    /\ worker[w].pc = "send"
    /\ worker' = [worker EXCEPT ![w].pc = "release"]
    /\ IF worker[w].ret = "err"
       THEN /\ runRet' = [runRet EXCEPT ![1] = "err"]
            /\ MainLoopBody
            /\ UNCHANGED runI
       ELSE /\ runI' = runI + 1
            /\ UNCHANGED <<runRet, mainPc, mainI>>
    /\ UNCHANGED <<numWorkers, numConcurrency, numRounds, round, tasks,
                   concCh, reqURL>>
    /\ UNCHANGED <<serverVars, call>>

\* the deferred `<-concCh` of goroutine w
WRelease(w) ==
    /\ worker[w].pc = "release"
    /\ worker' = [worker EXCEPT ![w].pc = "done"]
    /\ concCh' = [concCh EXCEPT ![1] = @ - 1]
    /\ UNCHANGED <<numWorkers, numConcurrency, numRounds, mainPc, mainI,
                   round, runI, runRet, tasks, reqURL>>
    /\ UNCHANGED <<serverVars, call>>

WireNext ==
    \/ \E w \in Workers : WAcquire(w)
    \/ \E w \in Workers : WSetQuery(w)
    \/ \E w \in Workers : WGet(w)
    \/ \E w \in Workers : WRecv(w)
    \/ \E w \in Workers : WRelease(w)
    \/ RunReturnNil

InitWire == WireInit /\ ServerIdle

WireSpec == InitWire /\ [][WireNext]_vars

\* ------------------------------------------- one query through the client
\* What becomes of the answer of the server's GetMatchCount on its way back:
\* the client's handler writes the HTTP body, runQuery decodes it and the
\* goroutine's closure makes the value it sends on respErrCh.

MaxMsgLen == 2

\* the characters of an error text: a letter, a double quote, a backslash
\* and a newline
MsgChars == {"x", "\"", "\\", "\n"}

Msgs == UNION {[1..n -> MsgChars] : n \in 0..MaxMsgLen}

\* the counts the server may return, as MatchCount and as decimal text
Counts == {0, 14, 484}

Itoa(n) == CASE n = 0 -> "0" [] n = 14 -> "14" [] n = 484 -> "484"

Atoi(str) == CASE str = "0" -> 0 [] str = "14" -> 14 [] str = "484" -> 484

\* what cli.GetMatchCount returns to the handler: a response, or an error
\* (the server's retrieval error, a server that has panicked, a failed RPC)
RpcOutcomes ==
    {[kind |-> "count", n |-> n, msg |-> <<>>] : n \in Counts}
        \cup {[kind |-> "error", n |-> 0, msg |-> m] : m \in Msgs}

\* a worker has drawn test case q and its request has reached the handler,
\* whose call to the server has returned
ClientInit ==
    \E q \in 1..Len(testCases), o \in RpcOutcomes :
        call = [pc |-> "handler", q |-> q, rpc |-> o, body |-> <<>>,
                matched |-> 0, err |-> "none", sent |-> "none"]

\* writeError: `{"error": "` + s + `"}`, with s unescaped
writeError(str) == <<"{", "\"error\":", "\"">> \o str \o <<"\"", "}">>

\* json.Marshal(resp)
Marshal(n) == <<"{", "\"match_count\":", Itoa(n), "}">>

\* handler: the error of GetMatchCount goes to writeError, the response is
\* marshalled and written; the status is 200 in both cases
Handler ==
    /\ call.pc = "handler"
    /\ call' = [call EXCEPT
                  !.pc = "get",
                  !.body = IF call.rpc.kind = "error"
                           THEN writeError(<<"error calling GetMatchCount: ">> \o call.rpc.msg)
                           ELSE Marshal(call.rpc.n)]
    /\ UNCHANGED <<loadVars, serverVars, reqURL, worker>>

\* the JSON decoder inside a string, after its opening quote: the string ends
\* at the first unescaped quote, a newline is no string character, a
\* backslash starts an escape, and the object must end after the string
RECURSIVE ScanString(_)
ScanString(rest) ==
    IF rest = <<>> THEN FALSE
    ELSE CASE rest[1] = "\"" -> Tail(rest) = <<"}">>
           [] rest[1] = "\n" -> FALSE
           [] rest[1] = "\\" ->
                 /\ Len(rest) >= 2
                 /\ rest[2] \in {"\"", "\\"}
                 /\ ScanString(SubSeq(rest, 3, Len(rest)))
           [] OTHER -> ScanString(Tail(rest))

\* json.Unmarshal(data, &r) into struct{Matched int `json:"match_count"`}: a
\* member with another name is skipped, text that is no JSON is an error
Unmarshal(data) ==
    IF Len(data) = 4 /\ data[2] = "\"match_count\":"
    THEN [Matched |-> Atoi(data[3]), err |-> "nil"]
    ELSE IF ScanString(SubSeq(data, 4, Len(data)))
    THEN [Matched |-> 0, err |-> "nil"]
    ELSE [Matched |-> 0, err |-> "json"]

\* runQuery: http.Get fails, or the body is read and decoded
RunQueryReturns ==
    /\ call.pc = "get"
    /\ \/ call' = [call EXCEPT !.pc = "returned", !.matched = -1, !.err = "http"]
       \/ call' = [call EXCEPT !.pc = "returned",
                                !.matched = Unmarshal(call.body).Matched,
                                !.err = Unmarshal(call.body).err]
    /\ UNCHANGED <<loadVars, serverVars, reqURL, worker>>

\* check's comparison of the count with the test case's wantCount
CheckFinds == IF call.matched = testCases[call.q].wantCount THEN "nil" ELSE "diff"

\* the goroutine's closure: runQuery's error, or check and nil
Closure ==
    /\ call.pc = "returned"
    /\ call' = [call EXCEPT !.pc = "sent",
                  !.sent = Sent(IF call.err # "nil" THEN "err" ELSE CheckFinds)]
    /\ UNCHANGED <<loadVars, serverVars, reqURL, worker>>

ClientNext ==
    \/ Handler
    \/ RunQueryReturns
    \/ Closure

InitClient ==
    /\ LoadIdle
    /\ ServerIdle
    /\ reqURL = ""
    /\ worker = <<>>
    /\ ClientInit

ClientSpec == InitClient /\ [][ClientNext]_vars

\* ------------------------------------------------------------------ claims

\* C1: during a call run(workers, concurrency) with workers >= concurrency
\* >= 1, the number of goroutines that hold a permit, and so the number of
\* queries in flight, never exceeds concurrency.
C1_PermitsWithinLimit ==
    (numWorkers >= numConcurrency /\ numConcurrency >= 1) =>
        \A b \in Batches :
            /\ Held(b) <= numConcurrency
            /\ InFlight(b) <= Held(b)

\* the pool is full of running queries while another goroutine waits for a
\* permit
C1_Witness ==
    \E b \in Batches :
        /\ numConcurrency >= 1
        /\ numWorkers > numConcurrency
        /\ InFlight(b) = numConcurrency
        /\ BagIn(Task("acquire", "none"), tasks[b])

\* no goroutine of batch b can take another step
BatchStuck(b) ==
    /\ ~(BagIn(Task("acquire", "none"), tasks[b]) /\ CanAcquire(b))
    /\ NumAt(tasks[b], {"query", "release"}) = 0
    /\ ~(Collecting(b) /\ NumAt(tasks[b], {"send"}) > 0)

\* C2: every permit acquired during a batch is released again, also when a
\* query failed and run returned early: once run has returned and the
\* goroutines of the batch have come to rest, no permit of the batch is held.
C2_NoPermitLeak ==
    \A b \in Batches :
        (runRet[b] \in {"nil", "err"} /\ BatchStuck(b)) => Held(b) = 0

\* every query of batch b so far returned a count
AllSucceeded(b) == NumRet(tasks[b], "err") = 0

\* ---- server claims

\* readFiles of the current call has returned
ReadFilesDone == srvPc \in {"readDone", "returned", "panic"}

\* the listing of the current call went through
Listed == rfErr.kind # "list"

\* the goroutines of the current call whose NewReader or ReadAll failed
FailedFetches == {k \in DOMAIN fetch : fetch[k].err # "nil"}

\* the goroutines of the current call that read their object to the end
GoodFetches == {k \in DOMAIN fetch : fetch[k].pc \in {"send", "done"} /\ fetch[k].err = "nil"}

SeqToBag(seq) ==
    [x \in {seq[k] : k \in DOMAIN seq} |-> Cardinality({k \in DOMAIN seq : seq[k] = x})]

\* the contents of the objects whose index is in S, as a bag
ContentBag(S) ==
    [x \in {Content(k) : k \in S} |-> Cardinality({k \in S : Content(k) = x})]

\* C3: when the listing and every fetch succeed, readFiles returns no error
\* and ret holds the content of every listed object exactly once, whatever
\* order the goroutines deliver in; an empty listing gives an empty ret.
C3_AllFetchedOnce ==
    (ReadFilesDone /\ Listed /\ FailedFetches = {}) =>
        /\ rfErr = NoError
        /\ Len(ret) = Len(paths)
        /\ SeqToBag(ret) = ContentBag(1..Len(paths))

\* two objects with different contents were delivered in the reverse of
\* their listing order
C3_Witness ==
    /\ ReadFilesDone
    /\ FailedFetches = {}
    /\ Len(paths) = 2
    /\ Content(1) # Content(2)
    /\ ret[1] = Content(2)
    /\ ret[2] = Content(1)

\* C4: when exactly one fetch fails, the process lives on until readFiles
\* returns, and readFiles returns an error and a ret that holds the contents
\* of the other objects and nothing else (the slot of the failed fetch is the
\* empty string).
C4_OneFailureKeepsTheRest ==
    Cardinality(FailedFetches) = 1 =>
        /\ crashed => ReadFilesDone
        /\ ReadFilesDone =>
              /\ rfErr # NoError
              /\ SeqToBag(ret) = ContentBag(GoodFetches) (+) SetToBag({<<>>})

\* C5: when readFiles returns, every goroutine it launched has finished.
C5_AllTasksFinished ==
    ReadFilesDone => \A k \in DOMAIN fetch : fetch[k].pc = "done"

\* C6: a query that is no valid pattern, with the corpus retrieved, ends in
\* GetMatchCount returning a pattern error and no count, and the process
\* lives on.
C6_BadPatternIsReported ==
    (srvPc \in {"returned", "panic"} /\ ~Parse(query).ok
        /\ Listed /\ FailedFetches = {}) =>
            /\ ~crashed
            /\ srvPc = "returned"
            /\ resp = [MatchCount |-> 0, err |-> "pattern"]

\* the lines in the texts already fetched that the query of the call matches
FetchedMatches ==
    CountMatches(Compiled.toks, [k \in 1..rfI |-> ret[k]])

Perms(seq) ==
    {[k \in DOMAIN seq |-> seq[f[k]]] :
        f \in {g \in [DOMAIN seq -> DOMAIN seq] : \A i, j \in DOMAIN seq : g[i] = g[j] => i = j}}

\* the texts in the order of the listing
ListedTexts == [k \in 1..Len(paths) |-> Content(k)]

\* C8: the count GetMatchCount returns is the count of the same texts taken
\* in any other order, and in particular of the texts in listing order: it
\* depends on the query and the bucket only, not on the order of delivery.
C8_CountOrderInvariant ==
    (srvPc = "returned" /\ resp.err = "nil") =>
        /\ \A texts \in Perms(ret) :
              CountMatches(Compiled.toks, texts) = resp.MatchCount
        /\ resp.MatchCount = CountMatches(Compiled.toks, ListedTexts)

\* a count over two texts with different numbers of matching lines that were
\* delivered in the reverse of their listing order
C8_Witness ==
    /\ srvPc = "returned"
    /\ resp.err = "nil"
    /\ Len(paths) = 2
    /\ ret[1] = Content(2)
    /\ LineMatches(Compiled.toks, ret[1]) # LineMatches(Compiled.toks, ret[2])
    /\ resp.MatchCount > 0

\* the pattern matches the line with letters compared without regard to case
\* (the meaning of the pattern under the flag i)
FoldTokMatch(tok, ch) ==
    CASE tok.kind = "lit" -> Lower(ch) = Lower(tok.c)
      [] tok.kind = "space" -> ch = " "
      [] tok.kind = "nonspace" -> ch # " "

FoldMatchString(toks, line) ==
    \E pos \in 0..(Len(line) - Len(toks)) :
        \A k \in 1..Len(toks) : FoldTokMatch(toks[k], line[pos + k])

FoldLineMatches(toks, text) ==
    Cardinality({k \in 1..Len(Split(text)) : FoldMatchString(toks, Split(text)[k])})

RECURSIVE FoldCount(_, _)
FoldCount(toks, texts) ==
    IF texts = <<>> THEN 0
    ELSE FoldLineMatches(toks, Head(texts)) + FoldCount(toks, Tail(texts))

\* C9: for a retrieved corpus the count is the number of lines, over all
\* texts, that the query matches somewhere without regard to case.
C9_CountsCaseInsensitiveLines ==
    (srvPc = "returned" /\ resp.err = "nil") =>
        resp.MatchCount = FoldCount(Parse(query).toks, ret)

\* C10: with concurrency >= 1, a batch whose queries all succeed makes run
\* return nil, and run returns nil only after `workers` queries were issued
\* and `workers` results were collected; it returns an error only after a
\* query failed.
C10_RunReturnsNil ==
    /\ [](\A b \in Batches :
            /\ runRet[b] = "nil" =>
                  /\ Issued(b) = numWorkers
                  /\ Delivered(b) = numWorkers
                  /\ AllSucceeded(b)
            /\ runRet[b] = "err" => ~AllSucceeded(b))
    /\ \A b \in Batches :
          (numConcurrency >= 1 /\ runRet[b] = "pending")
              ~> (runRet[b] = "nil" \/ ~AllSucceeded(b))

\* a batch of more workers than permits has returned nil
C10_Witness ==
    \E b \in Batches :
        /\ runRet[b] = "nil"
        /\ numConcurrency >= 1
        /\ numWorkers > numConcurrency
        /\ Delivered(b) = numWorkers

\* C11: when a query of the batch fails, run returns an error and never nil;
\* after the error return main has neither left its loop nor stopped the
\* ticker: it waits for the next tick, on which it calls run again.
C11_ErrorAbortsBatchOnly ==
    /\ [](runRet[1] = "nil" => AllSucceeded(1))
    /\ [](runRet[1] = "err" => (~AllSucceeded(1) /\ mainPc = "tick" /\ ENABLED Tick))
    /\ ~AllSucceeded(1) ~> runRet[1] = "err"

\* run returned the error of one goroutine while another one had a count
C11_Witness ==
    /\ runRet[1] = "err"
    /\ mainPc = "tick"
    /\ NumRet(tasks[1], "nil") > 0
    /\ NumRet(tasks[1], "err") > 0

\* goroutines of batch b that wait for a permit, run their query or wait to
\* hand over their result
Active(b) == NumAt(tasks[b], {"acquire", "query", "send"})

\* C12: goroutines of two different batches are never active together: when
\* a batch is dispatched, every goroutine of the batches before it has
\* handed over its result, also when an earlier run call returned an error.
C12_BatchesDoNotOverlap ==
    \A b, c \in Batches : (b < c /\ runRet[c] # "none") => Active(b) = 0

\* C13: with numRounds = R > 0 main calls run R times, never more, and has
\* called it R times when it leaves its loop; with numRounds = 0 it never
\* leaves its loop.
C13_RunsExactlyNumRounds ==
    /\ numRounds > 0 => round <= numRounds
    /\ (numRounds > 0 /\ mainPc = "exit") => round = numRounds
    /\ numRounds = 0 => mainPc # "exit"

\* goroutines of batch b whose query returned a count that check found
\* different from the expected one
Mismatched(b) == NumRet(tasks[b], "diff")

\* C14: a count that differs from the expected one is only logged: run
\* returns an error only after a query failed, and a batch with mismatches
\* whose queries all succeed makes run return nil.
C14_MismatchIsNotAnError ==
    /\ [](runRet[1] = "err" => ~AllSucceeded(1))
    /\ [](runRet[1] = "nil" => Delivered(1) = numWorkers)
    /\ Mismatched(1) > 0 ~> (runRet[1] = "nil" \/ ~AllSucceeded(1))

\* run returned nil for a batch in which every count differed
C14_Witness ==
    /\ runRet[1] = "nil"
    /\ numWorkers >= 2
    /\ Mismatched(1) = numWorkers

\* C15: when the listing fails, readFiles returns the error and an empty ret
\* and has launched no goroutine, and GetMatchCount tests no line and returns
\* the error without a count.
C15_ListingFailureStopsAll ==
    rfErr.kind = "list" =>
        /\ ReadFilesDone
        /\ fetch = <<>>
        /\ ret = <<>>
        /\ tested = 0
        /\ resp.MatchCount = 0
        /\ srvPc # "panic"
        /\ srvPc = "returned" => resp.err = "retrieval"

\* GetMatchCount returned the listing error for a bucket that holds an object
\* with a line the (valid) query matches
C15_Witness ==
    /\ srvPc = "returned"
    /\ rfErr.kind = "list"
    /\ resp.err = "retrieval"
    /\ Compiled.ok
    /\ \E k \in 1..Len(objects) :
          /\ objects[k].name # ""
          /\ LineMatches(Compiled.toks, objects[k].content) > 0

\* C16: the error readFiles returns is the error of the first failed result
\* its receive loop got: once an error is recorded during a call, no later
\* result replaces it.
C16_FirstErrorIsKept ==
    [][(reqs' = reqs /\ rfErr.kind \in {"open", "read"}) => rfErr' = rfErr]_vars

\* the goroutines of the current call whose result the receive loop has got
SentOnce == {k \in DOMAIN fetch : fetch[k].pc \in {"nilRead", "done"}}

\* C17: every goroutine hands over exactly one result, also after a failed
\* open, and readFiles gets len(paths) results, one from each goroutine,
\* before it returns: the receive loop counts one result per goroutine, at
\* its return every goroutine has sent, and nothing ends the process before
\* the loop has all its results.
C17_OneResultPerTask ==
    /\ Cardinality(SentOnce) = rfI
    /\ (ReadFilesDone /\ Listed) => SentOnce = DOMAIN fetch
    /\ crashed => rfI = Len(paths)

\* C18: a call whose query is no valid pattern is rejected before any work:
\* readFiles is not entered, so the bucket is not listed and no goroutine
\* fetches an object for that call.
C18_BadPatternDoesNoWork ==
    (reqs > 0 /\ ~Parse(query).ok) =>
        /\ srvPc \notin {"collect", "readDone"}
        /\ fetch = <<>>

\* the goroutines whose request has gone over the wire
Requested == {w \in Workers : worker[w].pc \in {"send", "release", "done"}}

\* C19: the query a goroutine sends over the wire is the query of the test
\* case it drew, whose wantCount its answer is compared with, whatever the
\* other goroutines do in the meantime.
C19_SendsItsOwnQuery ==
    \A w \in Requested : worker[w].sent = testCases[worker[w].q].query

\* goroutines inside runQuery, over the batches 1..n
RECURSIVE SumInFlight(_)
SumInFlight(n) == IF n = 0 THEN 0 ELSE InFlight(n) + SumInFlight(n - 1)

TotalInFlight == SumInFlight(MaxBatches)

\* C20: all batches draw their permits from one pool made at startup, so at
\* any time the queries in flight, over all batches, those of a run call
\* that returned an error included, are at most numConcurrency.
C20_OnePoolForAllBatches ==
    numConcurrency >= 1 => TotalInFlight <= numConcurrency

\* goroutines of batch b that have not returned yet
Alive(b) == NumAt(tasks[b], {"acquire", "query", "send", "release"})

\* C21: after run has returned the error of one goroutine, every other
\* goroutine of the batch still comes to its end: it neither stays blocked
\* at `concCh <- true` nor at `respErrCh <- ...`.
C21_SiblingsFinishAfterError ==
    runRet[1] = "err" ~> Alive(1) = 0

\* C22: a goroutine holds its permit from before its query starts until the
\* query has returned and no longer: the permits taken from concCh are those
\* of the goroutines inside runQuery or at their release, and a goroutine
\* that waits to hand over its result holds none.
C22_PermitHeldOnlyDuringQuery ==
    \A b \in Batches :
        /\ InFlight(b) <= concCh[b]
        /\ concCh[b] = NumAt(tasks[b], {"query", "release"})

\* C23: the content fetched for the i-th listed object is the i-th entry of
\* the ret readFiles returns, whatever order the goroutines deliver in.
C23_RetFollowsListing ==
    (ReadFilesDone /\ Listed /\ FailedFetches = {}) =>
        \A k \in 1..Len(paths) : ret[k] = Content(k)

\* the goroutines of the current call that have asked the store for their
\* object
Opened == {k \in DOMAIN fetch : fetch[k].pc # "open"}

\* C24: in one readFiles call there is one goroutine per listed name, the
\* names are those of the listing, each once; each goroutine asks the store
\* for its object once (it never comes back to NewReader, a failed fetch
\* stays failed), and at the return of readFiles every goroutine has asked.
C24_EachObjectFetchedOnce ==
    /\ []((reqs > 0 /\ Listed) =>
            /\ Len(fetch) = Len(paths)
            /\ \A j, k \in 1..Len(paths) : paths[j] = paths[k] => j = k
            /\ {paths[k] : k \in 1..Len(paths)}
                  = {n \in 1..Len(objects) : objects[n].name # ""}
            /\ ReadFilesDone => Opened = DOMAIN fetch)
    /\ [][reqs' = reqs =>
            \A k \in DOMAIN fetch :
                /\ k \in Opened => fetch'[k].pc # "open"
                /\ fetch[k].err # "nil" => fetch'[k].err = fetch[k].err]_vars

\* readFiles returned after a fetch of one of two objects failed in ReadAll
C24_Witness ==
    /\ ReadFilesDone
    /\ Len(paths) = 2
    /\ \E k \in DOMAIN fetch : fetch[k].err = "read" /\ fetch[k].pc = "done"
    /\ \E k \in DOMAIN fetch : fetch[k].err = "nil" /\ fetch[k].pc = "done"

C26_ZeroConcurrencyBlocks ==
    (numConcurrency = 0 /\ numWorkers >= 1) =>
        /\ \A b \in Batches :
              /\ Issued(b) = 0
              /\ concCh[b] = 0
              /\ runRet[b] \in {"none", "pending"}
        /\ round <= 1
        /\ round = 1 => (mainPc = "run" /\ Alive(1) = numWorkers)

\* run was called with no permit: all its goroutines wait at the channel
C26_Witness ==
    /\ numConcurrency = 0
    /\ numWorkers >= 2
    /\ mainPc = "run"
    /\ runRet[1] = "pending"
    /\ NumAt(tasks[1], {"acquire"}) = numWorkers

\* C27: when the handler's call to the server failed, runQuery returns an
\* error and the goroutine sends an error: the answer is never decoded into
\* a count and compared with the expected count.
C27_FailureIsNotACount ==
    (call.rpc.kind = "error" /\ call.pc \in {"returned", "sent"}) =>
        /\ call.err # "nil"
        /\ call.pc = "sent" => call.sent = "err"

====
